---- MODULE Spec2Model ----
(***************************************************************************)
(* Font Group System: the flat-file JSON store (JsonDatabase), the font /   *)
(* font-group service (FontService) and the HTTP handlers that call it.     *)
(*                                                                          *)
(* Modelling conventions                                                    *)
(*  - A string built by a template literal is a tuple of its parts:         *)
(*    `${id}.ttf` is <<id, ".ttf">>; an uploaded file name is <<base, ext>>.*)
(*  - A timestamp held in memory is Date(t) = <<"Date", t>>; JSON.stringify *)
(*    turns it into the ISO string Iso(t) = <<"iso", t>>, and JSON.parse    *)
(*    leaves that string a string.  t is the millisecond clock reading.     *)
(*  - uuidv4() is modelled as a generator of values never returned before   *)
(*    (nextUuid); `new Date()` reads a clock that never runs backwards.     *)
(*  - The backing file is absent, corrupt (unparseable) or holds a JSON     *)
(*    document; dbFile.doc is what JSON.parse of its text yields.           *)
(*  - Under Spec every handler runs to completion before the next request  *)
(*    is taken and every store write succeeds; fs.unlink may fail.  A       *)
(*    handler leaves its request, result and status in op, arg, ret and     *)
(*    status until Respond hands the response over.                         *)
(*                                                                          *)
(* Specifications                                                           *)
(*  - Spec: the HTTP handlers, one request at a time.                       *)
(*  - StoreSpec: the methods of JsonDatabase, one call at a time, where     *)
(*    the fs.writeFile of write() can fail and where backup() and restore() *)
(*    are called (no handler calls them).                                   *)
(*  - RaceSpec: two addFont / addFontGroup calls interleaved at their       *)
(*    awaits.                                                               *)
(*  - ServiceRaceSpec: createFontGroup or updateFontGroup interleaved with  *)
(*    deleteFont at their awaits.                                           *)
(*  - FaultSpec: the HTTP handlers, one request at a time, where the        *)
(*    fs.writeFile of write() can fail.                                     *)
(*  - FormSpec: the fontRows state of the client's FontGroupForm.           *)
(*  - AppSpec: the client's App component (fonts, fontGroups, editingGroup) *)
(*    in front of the handlers.                                             *)
(***************************************************************************)
EXTENDS Integers, Sequences, FiniteSets, TLC

\* ---------------------------------------------------------------- bounds
\* number of uuidv4() values generated in one run (fonts and groups together)
MaxUuid == 3
\* last reading of the millisecond clock
MaxClock == 1
\* longest fontIds list of a request
MaxIds == 2
\* number of uuidv4() values generated in one run of StoreSpec
MaxStoreUuid == 2
\* number of backup() calls in one run of StoreSpec
MaxBackups == 2
\* most fonts in the store when the two racing calls of RaceSpec start
MaxRaceFonts == 2
\* most rows the font group form is grown to
MaxRows == 3
\* number of uuidv4() values generated in one run of FaultSpec
MaxFaultUuid == 2
\* number of uuidv4() values generated in one run of AppSpec
MaxAppUuid == 3

Ids == 1..MaxUuid
\* uploaded file names <<base, extension>>
UploadNames == {<<"Arial", ".TTF">>, <<"Notes", ".otf">>}
GroupNames == {"Body Text", "Headings"}

\* all fontIds lists of length 0..MaxIds
FontIdLists == UNION {[1..n -> Ids] : n \in 0..MaxIds}

VARIABLES
    dbFile,    \* data/database.json: [kind, doc]
    uploads,   \* names of the files in uploads/
    now,       \* the millisecond clock
    nextUuid,  \* the next value uuidv4() returns
    op,        \* the last operation run
    arg,       \* its request (for deleteFont also whether fs.unlink succeeded)
    ret,       \* what the service method returned
    status,    \* the HTTP status of the handler's response
    pre,       \* dbFile and uploads as they were when the operation started
    backups,   \* data/database-backup-<timestamp>.json: timestamp -> content
    taken,     \* the backup() calls made so far: {[path, doc]}
    pc,        \* racing store calls: each call's position
    local,     \* racing store calls: the `data` each call holds
    order,     \* racing store calls: the file reads and writes made, in order
    fontRows,  \* FontGroupForm: the fontRows state
    app        \* App: the fonts, fontGroups and editingGroup states

\* the server's files, clock and uuid generator, and the request being served
serverVars == <<dbFile, uploads, now, nextUuid, op, arg, ret, status, pre>>
\* the backup files and the record of the backup() calls
backupVars == <<backups, taken>>
\* two store calls in flight at once
raceVars == <<pc, local, order>>
\* the client's font group form
formVars == <<fontRows>>
\* the client's App component
appVars == <<app>>
vars == <<serverVars, backupVars, raceVars, formVars, appVars>>

\* ---------------------------------------------------------------- values
Date(t) == <<"Date", t>>
Iso(t) == <<"iso", t>>
\* the instant a timestamp (Date or ISO string) denotes
TimeOf(ts) == ts[2]
\* Date.prototype.toJSON: a Date becomes its ISO string, a string stays
DateToJSON(ts) == Iso(ts[2])

Null == [type |-> "null"]
Bool(b) == [type |-> "boolean", value |-> b]
Obj(v) == [type |-> "object", value |-> v]

\* String.prototype.toLowerCase on the extensions of UploadNames
toLowerCase(ext) == IF ext = ".TTF" THEN ".ttf" ELSE ext
\* originalName.replace(/\.ttf$/i, '')
StripTtf(originalName) ==
    IF toLowerCase(originalName[2]) = ".ttf" THEN <<originalName[1]>> ELSE originalName

\* JSON.stringify of a Font / FontGroup / DatabaseData, then JSON.parse
FontToJSON(font) == [font EXCEPT !.uploadedAt = DateToJSON(@)]
GroupToJSON(g) ==
    [g EXCEPT !.fonts = [i \in 1..Len(g.fonts) |-> FontToJSON(g.fonts[i])],
              !.createdAt = DateToJSON(@),
              !.updatedAt = DateToJSON(@)]
\* every property of the object is written; one that is absent stays absent
Stringify(data) ==
    [k \in DOMAIN data |->
        IF k = "fonts"
        THEN [i \in 1..Len(data.fonts) |-> FontToJSON(data.fonts[i])]
        ELSE IF k = "fontGroups"
        THEN [i \in 1..Len(data.fontGroups) |-> GroupToJSON(data.fontGroups[i])]
        ELSE data[k]]

\* Array.prototype.findIndex on the id field; 0 stands for JavaScript's -1
FindIndex(s, id) ==
    IF \E i \in 1..Len(s) : s[i].id = id
    THEN CHOOSE i \in 1..Len(s) : s[i].id = id /\ \A j \in 1..(i - 1) : s[j].id # id
    ELSE 0
\* Array.prototype.splice(index, 1)
Splice1(s, index) == SubSeq(s, 1, index - 1) \o SubSeq(s, index + 1, Len(s))
\* Array.prototype.filter(x => x.id !== id)
RECURSIVE FilterNotId(_, _)
FilterNotId(s, id) ==
    IF s = <<>> THEN <<>>
    ELSE (IF Head(s).id # id THEN <<Head(s)>> ELSE <<>>) \o FilterNotId(Tail(s), id)

\* the ids and the elements of an array
IdsOf(s) == {s[i].id : i \in 1..Len(s)}
Range(s) == {s[i] : i \in 1..Len(s)}
\* the element of s with the given id (s holds one)
ById(s, id) == s[CHOOSE i \in 1..Len(s) : s[i].id = id]

\* ---------------------------------------------------------------- JsonDatabase
EmptyData == [fonts |-> <<>>, fontGroups |-> <<>>]
AbsentFile == [kind |-> "absent", doc |-> EmptyData]

\* variant of ensureDatabase that does not create the missing file
JsonDatabase_ensureDatabase_NoCreate(f) == f

JsonDatabase_ensureDatabase(f) ==
    IF f.kind = "absent" THEN [kind |-> "json", doc |-> EmptyData] ELSE f

\* the DatabaseData read() returns; read() also runs ensureDatabase on the file
JsonDatabase_read(f) ==
    IF JsonDatabase_ensureDatabase(f).kind = "json"
    THEN JsonDatabase_ensureDatabase(f).doc
    ELSE EmptyData

\* variant of write that serialises {fonts: data.fonts} instead of data
JsonDatabase_write_FontsOnly(f, data) ==
    [kind |-> "json", doc |-> [fonts |-> Stringify(data).fonts]]

\* the file after write(data)
JsonDatabase_write(f, data) == [kind |-> "json", doc |-> Stringify(data)]

JsonDatabase_getAllFonts(f) == JsonDatabase_read(f).fonts

\* variant of addFont that assigns data.fonts = [font] instead of pushing
JsonDatabase_addFont_Overwrites(f, font) ==
    LET data == JsonDatabase_read(f)
    IN JsonDatabase_write(JsonDatabase_ensureDatabase(f),
                          [data EXCEPT !.fonts = <<font>>])

\* the file after addFont(font)
JsonDatabase_addFont(f, font) ==
    LET data == JsonDatabase_read(f)
    IN JsonDatabase_write(JsonDatabase_ensureDatabase(f),
                          [data EXCEPT !.fonts = Append(@, font)])

\* a sequence of zero or one Font: undefined is <<>>
JsonDatabase_getFontById(f, id) ==
    LET fonts == JsonDatabase_read(f).fonts
        i == FindIndex(fonts, id)
    IN IF i = 0 THEN <<>> ELSE <<fonts[i]>>

\* variant of the cascade that filters the first group only
StripFromGroups_FirstGroupOnly(fontGroups, id) ==
    [g \in 1..Len(fontGroups) |->
        IF g = 1 THEN [fontGroups[g] EXCEPT !.fonts = FilterNotId(@, id)]
                 ELSE fontGroups[g]]

\* data.fontGroups.forEach(group => group.fonts = group.fonts.filter(...))
StripFromGroups(fontGroups, id) ==
    [g \in 1..Len(fontGroups) |-> [fontGroups[g] EXCEPT !.fonts = FilterNotId(@, id)]]

\* variant of deleteFont without the cascade into the groups
JsonDatabase_deleteFont_NoCascade(f, id) ==
    LET data == JsonDatabase_read(f)
        fontIndex == FindIndex(data.fonts, id)
    IN IF fontIndex = 0
       THEN [file |-> JsonDatabase_ensureDatabase(f), result |-> FALSE]
       ELSE [file |-> JsonDatabase_write(JsonDatabase_ensureDatabase(f),
                          [data EXCEPT !.fonts = Splice1(@, fontIndex)]),
             result |-> TRUE]

\* [file, result]: the file afterwards and the boolean returned
JsonDatabase_deleteFont(f, id) ==
    LET data == JsonDatabase_read(f)
        fontIndex == FindIndex(data.fonts, id)
    IN IF fontIndex = 0
       THEN [file |-> JsonDatabase_ensureDatabase(f), result |-> FALSE]
       ELSE [file |-> JsonDatabase_write(JsonDatabase_ensureDatabase(f),
                          [fonts |-> Splice1(data.fonts, fontIndex),
                           fontGroups |-> StripFromGroups(data.fontGroups, id)]),
             result |-> TRUE]

JsonDatabase_getAllFontGroups(f) == JsonDatabase_read(f).fontGroups

\* variant of addFontGroup that assigns data.fontGroups = [fontGroup] instead
\* of pushing
JsonDatabase_addFontGroup_Overwrites(f, fontGroup) ==
    LET data == JsonDatabase_read(f)
    IN JsonDatabase_write(JsonDatabase_ensureDatabase(f),
                          [data EXCEPT !.fontGroups = <<fontGroup>>])

\* the file after addFontGroup(fontGroup)
JsonDatabase_addFontGroup(f, fontGroup) ==
    LET data == JsonDatabase_read(f)
    IN JsonDatabase_write(JsonDatabase_ensureDatabase(f),
                          [data EXCEPT !.fontGroups = Append(@, fontGroup)])

\* a sequence of zero or one FontGroup: undefined is <<>>
JsonDatabase_getFontGroupById(f, id) ==
    LET groups == JsonDatabase_read(f).fontGroups
        i == FindIndex(groups, id)
    IN IF i = 0 THEN <<>> ELSE <<groups[i]>>

\* variant of updateFontGroup that removes the group and pushes the updated one
JsonDatabase_updateFontGroup_MovesToEnd(f, updatedGroup) ==
    LET data == JsonDatabase_read(f)
        groupIndex == FindIndex(data.fontGroups, updatedGroup.id)
    IN IF groupIndex = 0
       THEN [file |-> JsonDatabase_ensureDatabase(f), result |-> FALSE]
       ELSE [file |-> JsonDatabase_write(JsonDatabase_ensureDatabase(f),
                          [data EXCEPT !.fontGroups =
                               Append(Splice1(@, groupIndex), updatedGroup)]),
             result |-> TRUE]

JsonDatabase_updateFontGroup(f, updatedGroup) ==
    LET data == JsonDatabase_read(f)
        groupIndex == FindIndex(data.fontGroups, updatedGroup.id)
    IN IF groupIndex = 0
       THEN [file |-> JsonDatabase_ensureDatabase(f), result |-> FALSE]
       ELSE [file |-> JsonDatabase_write(JsonDatabase_ensureDatabase(f),
                          [data EXCEPT !.fontGroups[groupIndex] = updatedGroup]),
             result |-> TRUE]

\* variant of deleteFontGroup that splices at findIndex's -1 (the last group)
\* instead of returning false
JsonDatabase_deleteFontGroup_NoMissCheck(f, id) ==
    LET data == JsonDatabase_read(f)
        groupIndex == FindIndex(data.fontGroups, id)
        at == IF groupIndex = 0 THEN Len(data.fontGroups) ELSE groupIndex
    IN [file |-> JsonDatabase_write(JsonDatabase_ensureDatabase(f),
                     [data EXCEPT !.fontGroups = Splice1(@, at)]),
        result |-> TRUE]

JsonDatabase_deleteFontGroup(f, id) ==
    LET data == JsonDatabase_read(f)
        groupIndex == FindIndex(data.fontGroups, id)
    IN IF groupIndex = 0
       THEN [file |-> JsonDatabase_ensureDatabase(f), result |-> FALSE]
       ELSE [file |-> JsonDatabase_write(JsonDatabase_ensureDatabase(f),
                          [data EXCEPT !.fontGroups = Splice1(@, groupIndex)]),
             result |-> TRUE]

\* ---------------------------------------------------------------- FontService
\* Each method is an operator from the file f, the uploads directory u and the
\* call's inputs to [file, uploads, ret]: the file and the directory afterwards
\* and the value returned.

\* variant of the Font record whose id is taken from the clock (Date.now())
NewFont_IdFromClock(id, originalName, t) ==
    [id |-> t,
     name |-> StripTtf(originalName),
     filename |-> <<t, ".ttf">>,
     originalName |-> originalName,
     path |-> <<"/uploads/", t, ".ttf">>,
     uploadedAt |-> Date(t)]

\* the Font record saveFont builds; id is uuidv4(), t the clock reading
NewFont(id, originalName, t) ==
    [id |-> id,
     name |-> StripTtf(originalName),
     filename |-> <<id, ".ttf">>,
     originalName |-> originalName,
     path |-> <<"/uploads/", id, ".ttf">>,
     uploadedAt |-> Date(t)]

FontService_saveFont(f, u, id, originalName, t) ==
    LET font == NewFont(id, originalName, t)
    IN [file |-> JsonDatabase_addFont(f, font),
        uploads |-> u \cup {font.filename},
        ret |-> Obj(font)]

\* variant of deleteFont that returns false when fs.unlink fails (no try/catch
\* around it would throw; this variant gives up instead)
FontService_deleteFont_StopsOnUnlinkFailure(f, u, id, unlinkOk) ==
    LET font == JsonDatabase_getFontById(f, id)
        deleted == JsonDatabase_deleteFont(f, id)
    IN IF font = <<>> \/ ~unlinkOk
       THEN [file |-> JsonDatabase_ensureDatabase(f), uploads |-> u, ret |-> Bool(FALSE)]
       ELSE [file |-> deleted.file,
             uploads |-> u \ {font[1].filename},
             ret |-> Bool(deleted.result)]

\* unlinkOk: whether fs.unlink of the binary succeeds
FontService_deleteFont(f, u, id, unlinkOk) ==
    LET font == JsonDatabase_getFontById(f, id)
        deleted == JsonDatabase_deleteFont(f, id)
    IN IF font = <<>>
       THEN [file |-> JsonDatabase_ensureDatabase(f), uploads |-> u, ret |-> Bool(FALSE)]
       ELSE [file |-> deleted.file,
             uploads |-> IF unlinkOk THEN u \ {font[1].filename} ELSE u,
             ret |-> Bool(deleted.result)]

\* variant of the selection: allFonts.filter(font => request.fontIds.includes(font.id))
SelectedFonts_StoreOrder(fontIds, allFonts) ==
    SelectSeq(allFonts, LAMBDA font : \E i \in 1..Len(fontIds) : fontIds[i] = font.id)

\* request.fontIds.map(id => allFonts.find(font => font.id === id))
\*                .filter(font => font !== undefined)
RECURSIVE SelectedFonts(_, _)
SelectedFonts(fontIds, allFonts) ==
    IF fontIds = <<>> THEN <<>>
    ELSE LET i == FindIndex(allFonts, Head(fontIds))
         IN (IF i = 0 THEN <<>> ELSE <<allFonts[i]>>)
            \o SelectedFonts(Tail(fontIds), allFonts)

\* variants of the length guard: `< 1` and `=== 0`
TooFewFonts_OffByOne(fontIds) == Len(fontIds) < 1
TooFewFonts_Empty(fontIds) == Len(fontIds) = 0

\* the guard `request.fontIds.length < 2`
TooFewFonts(fontIds) == Len(fontIds) < 2

\* variant of the resolution guard: `selectedFonts.length === 0`
SomeFontsNotFound_NoneFound(selectedFonts, fontIds) == Len(selectedFonts) = 0

\* the guard `selectedFonts.length !== request.fontIds.length`
SomeFontsNotFound(selectedFonts, fontIds) == Len(selectedFonts) # Len(fontIds)

\* the FontGroup createFontGroup builds; id is uuidv4(), t1 and t2 are the
\* readings of its two `new Date()`
NewFontGroup(id, name, selectedFonts, t1, t2) ==
    [id |-> id,
     name |-> name,
     fonts |-> selectedFonts,
     createdAt |-> Date(t1),
     updatedAt |-> Date(t2)]

FontService_createFontGroup(f, u, id, request, t1, t2) ==
    LET allFonts == JsonDatabase_getAllFonts(f)
        selectedFonts == SelectedFonts(request.fontIds, allFonts)
        fontGroup == NewFontGroup(id, request.name, selectedFonts, t1, t2)
    IN IF TooFewFonts(request.fontIds)
       THEN [file |-> f, uploads |-> u, ret |-> Null]
       ELSE IF SomeFontsNotFound(selectedFonts, request.fontIds)
       THEN [file |-> JsonDatabase_ensureDatabase(f), uploads |-> u, ret |-> Null]
       ELSE [file |-> JsonDatabase_addFontGroup(f, fontGroup),
             uploads |-> u,
             ret |-> Obj(fontGroup)]

\* variant of the updated FontGroup that also stamps createdAt
UpdatedGroup_StampsCreatedAt(existingGroup, name, selectedFonts, t) ==
    [existingGroup EXCEPT !.name = name,
                          !.fonts = selectedFonts,
                          !.createdAt = Date(t),
                          !.updatedAt = Date(t)]

\* the FontGroup updateFontGroup builds: {...existingGroup, name, fonts, updatedAt}
UpdatedGroup(existingGroup, name, selectedFonts, t) ==
    [existingGroup EXCEPT !.name = name,
                          !.fonts = selectedFonts,
                          !.updatedAt = Date(t)]

FontService_updateFontGroup(f, u, request, t) ==
    LET existingGroup == JsonDatabase_getFontGroupById(f, request.id)
        allFonts == JsonDatabase_getAllFonts(f)
        selectedFonts == SelectedFonts(request.fontIds, allFonts)
        updatedGroup == UpdatedGroup(existingGroup[1], request.name, selectedFonts, t)
        updated == JsonDatabase_updateFontGroup(f, updatedGroup)
    IN IF existingGroup = <<>>
          \/ TooFewFonts(request.fontIds)
          \/ SomeFontsNotFound(selectedFonts, request.fontIds)
       THEN [file |-> JsonDatabase_ensureDatabase(f), uploads |-> u, ret |-> Null]
       ELSE [file |-> updated.file,
             uploads |-> u,
             ret |-> IF updated.result THEN Obj(updatedGroup) ELSE Null]

FontService_deleteFontGroup(f, u, id) ==
    LET deleted == JsonDatabase_deleteFontGroup(f, id)
    IN [file |-> deleted.file, uploads |-> u, ret |-> Bool(deleted.result)]

\* ---------------------------------------------------------------- handlers
\* App's state as useState initialises it: no fonts, no groups, no group being
\* edited
AppMounted == [fonts |-> <<>>, fontGroups |-> <<>>, editingGroup |-> Null]
\* no file database-backup-*.json exists
NoBackups == <<>>
Snapshot == [dbFile |-> dbFile, uploads |-> uploads]
NoRequest == [none |-> TRUE]

Init ==
    /\ dbFile = AbsentFile
    /\ uploads = {}
    /\ now = 0
    /\ nextUuid = 1
    /\ op = "idle"
    /\ arg = NoRequest
    /\ ret = Null
    /\ status = 0
    /\ pre = [dbFile |-> AbsentFile, uploads |-> {}]
    /\ backups = NoBackups
    /\ taken = {}
    /\ pc = <<>>
    /\ local = <<>>
    /\ order = <<>>
    /\ fontRows = <<>>
    /\ app = AppMounted

\* the millisecond clock advances (between two requests; CreateFontGroup
\* accounts for an advance between its own two readings)
Tick ==
    /\ op = "idle"
    /\ now < MaxClock
    /\ now' = now + 1
    /\ UNCHANGED <<dbFile, uploads, nextUuid, op, arg, ret, status, pre>>
    /\ UNCHANGED <<backupVars, raceVars, formVars, appVars>>

\* the response is handed over; the server waits for the next request
Respond ==
    /\ op # "idle"
    /\ op' = "idle"
    /\ arg' = NoRequest
    /\ ret' = Null
    /\ status' = 0
    /\ pre' = Snapshot
    /\ UNCHANGED <<dbFile, uploads, now, nextUuid>>
    /\ UNCHANGED <<backupVars, raceVars, formVars, appVars>>

\* POST /api/fonts/upload
UploadFont ==
    \E originalName \in UploadNames :
        /\ op = "idle"
        /\ arg' = [originalName |-> originalName]
        /\ pre' = Snapshot
        /\ IF toLowerCase(originalName[2]) # ".ttf"
           THEN \* 'Only TTF files are allowed': the service is not called
                /\ op' = "upload"
                /\ ret' = Null
                /\ status' = 400
                /\ UNCHANGED <<dbFile, uploads, nextUuid>>
           ELSE /\ nextUuid <= MaxUuid
                /\ op' = "saveFont"
                /\ LET r == FontService_saveFont(dbFile, uploads, nextUuid, originalName, now)
                   IN /\ dbFile' = r.file
                      /\ uploads' = r.uploads
                      /\ ret' = r.ret
                /\ nextUuid' = nextUuid + 1
                /\ status' = 201
        /\ UNCHANGED now
        /\ UNCHANGED <<backupVars, raceVars, formVars, appVars>>

\* GET /api/fonts
ListFonts ==
    /\ op = "idle"
    /\ op' = "getAllFonts"
    /\ arg' = NoRequest
    /\ pre' = Snapshot
    /\ ret' = Obj(JsonDatabase_getAllFonts(dbFile))
    /\ status' = 200
    /\ dbFile' = JsonDatabase_ensureDatabase(dbFile)
    /\ UNCHANGED <<uploads, now, nextUuid>>
    /\ UNCHANGED <<backupVars, raceVars, formVars, appVars>>

\* DELETE /api/fonts/:id
DeleteFont ==
    \E id \in Ids, unlinkOk \in BOOLEAN :
        /\ op = "idle"
        \* fs.unlink runs (and can fail) only when the font was found
        /\ JsonDatabase_getFontById(dbFile, id) = <<>> => unlinkOk
        /\ op' = "deleteFont"
        /\ arg' = [id |-> id, unlinkOk |-> unlinkOk]
        /\ pre' = Snapshot
        /\ LET r == FontService_deleteFont(dbFile, uploads, id, unlinkOk)
           IN /\ dbFile' = r.file
              /\ uploads' = r.uploads
              /\ ret' = r.ret
              /\ status' = IF r.ret.value THEN 200 ELSE 404
        /\ UNCHANGED <<now, nextUuid>>
        /\ UNCHANGED <<backupVars, raceVars, formVars, appVars>>

\* POST /api/font-groups
CreateFontGroup ==
    \E name \in GroupNames, fontIds \in FontIdLists, t2 \in now..(now + 1) :
        /\ op = "idle"
        /\ t2 <= MaxClock
        /\ LET request == [name |-> name, fontIds |-> fontIds]
               r == FontService_createFontGroup(dbFile, uploads, nextUuid, request, now, t2)
           IN /\ op' = "createFontGroup"
              /\ arg' = request
              /\ pre' = Snapshot
              /\ dbFile' = r.file
              /\ ret' = r.ret
              /\ IF r.ret = Null
                 THEN \* no uuid was drawn and no clock was read
                      /\ t2 = now
                      /\ status' = 400
                      /\ UNCHANGED <<now, nextUuid>>
                 ELSE /\ nextUuid <= MaxUuid
                      /\ status' = 201
                      /\ nextUuid' = nextUuid + 1
                      /\ now' = t2
        /\ UNCHANGED uploads
        /\ UNCHANGED <<backupVars, raceVars, formVars, appVars>>

\* GET /api/font-groups
ListFontGroups ==
    /\ op = "idle"
    /\ op' = "getAllFontGroups"
    /\ arg' = NoRequest
    /\ pre' = Snapshot
    /\ ret' = Obj(JsonDatabase_getAllFontGroups(dbFile))
    /\ status' = 200
    /\ dbFile' = JsonDatabase_ensureDatabase(dbFile)
    /\ UNCHANGED <<uploads, now, nextUuid>>
    /\ UNCHANGED <<backupVars, raceVars, formVars, appVars>>

\* PUT /api/font-groups/:id
UpdateFontGroup ==
    \E id \in Ids, name \in GroupNames, fontIds \in FontIdLists :
        /\ op = "idle"
        /\ LET request == [id |-> id, name |-> name, fontIds |-> fontIds]
               r == FontService_updateFontGroup(dbFile, uploads, request, now)
           IN /\ op' = "updateFontGroup"
              /\ arg' = request
              /\ pre' = Snapshot
              /\ dbFile' = r.file
              /\ ret' = r.ret
              /\ status' = IF r.ret = Null THEN 400 ELSE 200
        /\ UNCHANGED <<uploads, now, nextUuid>>
        /\ UNCHANGED <<backupVars, raceVars, formVars, appVars>>

\* DELETE /api/font-groups/:id
DeleteFontGroup ==
    \E id \in Ids :
        /\ op = "idle"
        /\ LET r == FontService_deleteFontGroup(dbFile, uploads, id)
           IN /\ op' = "deleteFontGroup"
              /\ arg' = [id |-> id]
              /\ pre' = Snapshot
              /\ dbFile' = r.file
              /\ ret' = r.ret
              /\ status' = IF r.ret.value THEN 200 ELSE 404
        /\ UNCHANGED <<uploads, now, nextUuid>>
        /\ UNCHANGED <<backupVars, raceVars, formVars, appVars>>

Next ==
    \/ Tick
    \/ Respond
    \/ UploadFont
    \/ ListFonts
    \/ DeleteFont
    \/ CreateFontGroup
    \/ ListFontGroups
    \/ UpdateFontGroup
    \/ DeleteFontGroup

Spec == Init /\ [][Next]_vars

\* ---------------------------------------------------------------- StoreSpec
\* The public methods of JsonDatabase called one at a time, with the values
\* FontService passes them, where the fs.writeFile of write() can fail and
\* where restore() is given a backup or a file that came from elsewhere.

\* JavaScript's undefined (what a Promise<void> resolves to)
Undefined == [type |-> "undefined"]
\* a rejected promise
Error(message) == [type |-> "error", value |-> message]
FailedToSave == Error("Failed to save data to database")
TypeError == Error("TypeError")
SyntaxError == Error("SyntaxError")

\* data/database.json holding text JSON.parse rejects: an empty or cut-off file
CorruptFile == [kind |-> "corrupt", doc |-> EmptyData]

\* fs.writeFile(path, text) opens the file with flag 'w', which truncates it,
\* and then writes: it succeeds ("ok"), fails before the file is opened
\* ("untouched") or fails after the truncation ("truncated": the file is left
\* empty or cut off, text that does not parse)
WriteOutcomes == {"ok", "untouched", "truncated"}
\* the file f after a write() whose fs.writeFile failed
JsonDatabase_writeFailed(f, outcome) ==
    IF outcome = "truncated" THEN CorruptFile ELSE JsonDatabase_ensureDatabase(f)
\* the file after the write() of a store method: `written` is the file a
\* successful write leaves
StoreWrite(f, written, outcome) ==
    IF outcome = "ok" THEN written ELSE JsonDatabase_writeFailed(f, outcome)
\* what the method's promise settles to: `value` when the write succeeded
StoreResult(value, outcome) == IF outcome = "ok" THEN value ELSE FailedToSave

\* `data.fonts` / `data.fontGroups` is an array (not undefined)
HasFonts(data) == "fonts" \in DOMAIN data
HasFontGroups(data) == "fontGroups" \in DOMAIN data

\* files restore() can be pointed at that backup() did not write: a JSON
\* object of another shape and a file that is not JSON
ForeignFiles ==
    <<[kind |-> "json", doc |-> [fonts |-> <<>>]], CorruptFile>>
BackupPath(t) == <<"database-backup", t>>
ForeignPath(k) == <<"foreign", k>>
\* the paths restore() is called with, and the file at a path
RestorePaths ==
    {BackupPath(t) : t \in DOMAIN backups}
        \cup {ForeignPath(k) : k \in 1..Len(ForeignFiles)}
FileAt(path) ==
    IF path[1] = "foreign"
    THEN ForeignFiles[path[2]]
    ELSE [kind |-> "json", doc |-> backups[path[2]]]

StoreFontName == <<"Arial", ".TTF">>
StoreGroupName == "Body Text"
StoreNewGroupName == "Headings"
StoreIds == 1..MaxStoreUuid

StoreInit ==
    /\ dbFile = AbsentFile
    /\ uploads = {}
    /\ now = 0
    /\ nextUuid = 1
    /\ op = "idle"
    /\ arg = NoRequest
    /\ ret = Null
    /\ status = 0
    /\ pre = [dbFile |-> AbsentFile, uploads |-> {}]
    /\ backups = NoBackups
    /\ taken = {}
    /\ pc = <<>>
    /\ local = <<>>
    /\ order = <<>>
    /\ fontRows = <<>>
    /\ app = AppMounted

\* what a store call leaves alone besides the file and the request record
StoreFrame == UNCHANGED <<uploads, status, raceVars, formVars, appVars>>

\* read()
Store_read ==
    /\ op = "idle"
    /\ op' = "read"
    /\ arg' = NoRequest
    /\ pre' = Snapshot
    /\ ret' = Obj(JsonDatabase_read(dbFile))
    /\ dbFile' = JsonDatabase_ensureDatabase(dbFile)
    /\ UNCHANGED <<now, nextUuid, backupVars>>
    /\ StoreFrame

\* write(await read())
Store_writeRead ==
    \E outcome \in WriteOutcomes :
        /\ op = "idle"
        /\ op' = "writeRead"
        /\ arg' = [outcome |-> outcome]
        /\ pre' = Snapshot
        /\ dbFile' = StoreWrite(dbFile,
                                JsonDatabase_write(JsonDatabase_ensureDatabase(dbFile),
                                                   JsonDatabase_read(dbFile)),
                                outcome)
        /\ ret' = StoreResult(Undefined, outcome)
        /\ UNCHANGED <<now, nextUuid, backupVars>>
        /\ StoreFrame

\* addFont(font), font as saveFont builds it
Store_addFont ==
    \E outcome \in WriteOutcomes :
        /\ op = "idle"
        /\ nextUuid <= MaxStoreUuid
        /\ op' = "addFont"
        /\ arg' = [id |-> nextUuid, outcome |-> outcome]
        /\ pre' = Snapshot
        /\ nextUuid' = nextUuid + 1
        /\ IF HasFonts(JsonDatabase_read(dbFile))
           THEN /\ dbFile' = StoreWrite(dbFile,
                                        JsonDatabase_addFont(dbFile,
                                            NewFont(nextUuid, StoreFontName, now)),
                                        outcome)
                /\ ret' = StoreResult(Undefined, outcome)
           ELSE \* data.fonts.push throws: write() is not reached
                /\ outcome = "ok"
                /\ dbFile' = JsonDatabase_ensureDatabase(dbFile)
                /\ ret' = TypeError
        /\ UNCHANGED <<now, backupVars>>
        /\ StoreFrame

\* deleteFont(id)
Store_deleteFont ==
    \E id \in StoreIds, outcome \in WriteOutcomes :
        /\ op = "idle"
        /\ op' = "deleteFont"
        /\ arg' = [id |-> id, outcome |-> outcome]
        /\ pre' = Snapshot
        /\ LET data == JsonDatabase_read(dbFile)
           IN IF ~HasFonts(data)
                 \/ (FindIndex(data.fonts, id) # 0 /\ ~HasFontGroups(data))
              THEN \* data.fonts.findIndex or data.fontGroups.forEach throws
                   /\ outcome = "ok"
                   /\ dbFile' = JsonDatabase_ensureDatabase(dbFile)
                   /\ ret' = TypeError
              ELSE IF FindIndex(data.fonts, id) = 0
              THEN /\ outcome = "ok"
                   /\ dbFile' = JsonDatabase_ensureDatabase(dbFile)
                   /\ ret' = Bool(FALSE)
              ELSE /\ dbFile' = StoreWrite(dbFile,
                                           JsonDatabase_deleteFont(dbFile, id).file,
                                           outcome)
                   /\ ret' = StoreResult(Bool(TRUE), outcome)
        /\ UNCHANGED <<now, nextUuid, backupVars>>
        /\ StoreFrame

\* addFontGroup(fontGroup), fontGroup as createFontGroup builds it from two
\* stored fonts
Store_addFontGroup ==
    \E a \in StoreIds, b \in StoreIds, outcome \in WriteOutcomes :
        /\ op = "idle"
        /\ nextUuid <= MaxStoreUuid
        /\ HasFonts(JsonDatabase_read(dbFile))
        /\ {a, b} \subseteq IdsOf(JsonDatabase_read(dbFile).fonts)
        /\ op' = "addFontGroup"
        /\ arg' = [id |-> nextUuid, fontIds |-> <<a, b>>, outcome |-> outcome]
        /\ pre' = Snapshot
        /\ nextUuid' = nextUuid + 1
        /\ IF HasFontGroups(JsonDatabase_read(dbFile))
           THEN /\ dbFile' = StoreWrite(dbFile,
                                        JsonDatabase_addFontGroup(dbFile,
                                            NewFontGroup(nextUuid, StoreGroupName,
                                                SelectedFonts(<<a, b>>,
                                                    JsonDatabase_read(dbFile).fonts),
                                                now, now)),
                                        outcome)
                /\ ret' = StoreResult(Undefined, outcome)
           ELSE \* data.fontGroups.push throws
                /\ outcome = "ok"
                /\ dbFile' = JsonDatabase_ensureDatabase(dbFile)
                /\ ret' = TypeError
        /\ UNCHANGED <<now, backupVars>>
        /\ StoreFrame

\* updateFontGroup(updatedGroup), updatedGroup as FontService.updateFontGroup
\* builds it from a stored group and two stored fonts
Store_updateFontGroup ==
    \E id \in StoreIds, a \in StoreIds, b \in StoreIds, outcome \in WriteOutcomes :
        /\ op = "idle"
        /\ HasFonts(JsonDatabase_read(dbFile))
        /\ HasFontGroups(JsonDatabase_read(dbFile))
        /\ {a, b} \subseteq IdsOf(JsonDatabase_read(dbFile).fonts)
        /\ id \in IdsOf(JsonDatabase_read(dbFile).fontGroups)
        /\ op' = "updateFontGroup"
        /\ arg' = [id |-> id, fontIds |-> <<a, b>>, outcome |-> outcome]
        /\ pre' = Snapshot
        /\ dbFile' = StoreWrite(dbFile,
                                JsonDatabase_updateFontGroup(dbFile,
                                    UpdatedGroup(JsonDatabase_getFontGroupById(dbFile, id)[1],
                                        StoreNewGroupName,
                                        SelectedFonts(<<a, b>>,
                                            JsonDatabase_read(dbFile).fonts),
                                        now)).file,
                                outcome)
        /\ ret' = StoreResult(Bool(TRUE), outcome)
        /\ UNCHANGED <<now, nextUuid, backupVars>>
        /\ StoreFrame

\* deleteFontGroup(id)
Store_deleteFontGroup ==
    \E id \in StoreIds, outcome \in WriteOutcomes :
        /\ op = "idle"
        /\ op' = "deleteFontGroup"
        /\ arg' = [id |-> id, outcome |-> outcome]
        /\ pre' = Snapshot
        /\ LET data == JsonDatabase_read(dbFile)
           IN IF ~HasFontGroups(data)
              THEN \* data.fontGroups.findIndex throws
                   /\ outcome = "ok"
                   /\ dbFile' = JsonDatabase_ensureDatabase(dbFile)
                   /\ ret' = TypeError
              ELSE IF FindIndex(data.fontGroups, id) = 0
              THEN /\ outcome = "ok"
                   /\ dbFile' = JsonDatabase_ensureDatabase(dbFile)
                   /\ ret' = Bool(FALSE)
              ELSE /\ dbFile' = StoreWrite(dbFile,
                                           JsonDatabase_deleteFontGroup(dbFile, id).file,
                                           outcome)
                   /\ ret' = StoreResult(Bool(TRUE), outcome)
        /\ UNCHANGED <<now, nextUuid, backupVars>>
        /\ StoreFrame

\* the files database-backup-*.json after backup() at clock reading t
JsonDatabase_backup(f, files, t) ==
    (t :> Stringify(JsonDatabase_read(f))) @@ files

\* backup(): the file name carries `new Date().toISOString()`, the clock
\* reading to the millisecond
Store_backup ==
    /\ op = "idle"
    /\ Cardinality(taken) < MaxBackups
    /\ op' = "backup"
    /\ arg' = [path |-> BackupPath(now)]
    /\ pre' = Snapshot
    /\ dbFile' = JsonDatabase_ensureDatabase(dbFile)
    /\ backups' = JsonDatabase_backup(dbFile, backups, now)
    /\ taken' = taken \cup {[path |-> BackupPath(now), doc |-> JsonDatabase_read(dbFile)]}
    /\ ret' = Undefined
    /\ UNCHANGED <<now, nextUuid>>
    /\ StoreFrame

\* the file after a successful restore() of the file `backupFile`
JsonDatabase_restore(f, backupFile) ==
    JsonDatabase_write(JsonDatabase_ensureDatabase(f), backupFile.doc)

\* restore(backupFilePath)
Store_restore ==
    \E path \in RestorePaths, outcome \in WriteOutcomes :
        /\ op = "idle"
        /\ op' = "restore"
        /\ arg' = [path |-> path, outcome |-> outcome]
        /\ pre' = Snapshot
        /\ IF FileAt(path).kind # "json"
           THEN \* JSON.parse throws: write() is not reached
                /\ outcome = "ok"
                /\ dbFile' = dbFile
                /\ ret' = SyntaxError
           ELSE /\ dbFile' = StoreWrite(dbFile,
                                        JsonDatabase_restore(dbFile, FileAt(path)),
                                        outcome)
                /\ ret' = StoreResult(Undefined, outcome)
        /\ UNCHANGED <<now, nextUuid, backupVars>>
        /\ StoreFrame

StoreNext ==
    \/ Tick
    \/ Respond
    \/ Store_read
    \/ Store_writeRead
    \/ Store_addFont
    \/ Store_deleteFont
    \/ Store_addFontGroup
    \/ Store_updateFontGroup
    \/ Store_deleteFontGroup
    \/ Store_backup
    \/ Store_restore

StoreSpec == StoreInit /\ [][StoreNext]_vars

\* ---------------------------------------------------------------- RaceSpec
\* Two mutating store calls in flight at once.  A call runs until its next
\* await: `const data = await this.read()` is one step (the file is read and
\* parsed), the push and `await this.write(data)` the next (the file is
\* written); nothing keeps the other call's steps from falling in between.
\* Both fs calls succeed.

Procs == {1, 2}
Other(p) == 3 - p

\* the store after n uploads (ids 1..n)
RECURSIVE StoreWithFonts(_)
StoreWithFonts(n) ==
    IF n = 0
    THEN JsonDatabase_ensureDatabase(AbsentFile)
    ELSE JsonDatabase_addFont(StoreWithFonts(n - 1), NewFont(n, StoreFontName, 0))

\* the call of process p on a store of n fonts: addFont of a new font, or,
\* when the store holds two fonts, addFontGroup of a new group of fonts 1 and 2
RaceFont(p) == NewFont(MaxRaceFonts + p, StoreFontName, 1)
RaceGroup(p, n) ==
    NewFontGroup(MaxRaceFonts + 2 + p, StoreGroupName,
                 SelectedFonts(<<1, 2>>, JsonDatabase_read(StoreWithFonts(n)).fonts), 1, 1)
RaceCalls(p, n) ==
    {[method |-> "addFont", value |-> RaceFont(p)]}
        \cup (IF n >= 2
               THEN {[method |-> "addFontGroup", value |-> RaceGroup(p, n)]}
               ELSE {})

RaceInit ==
    \E n \in 0..MaxRaceFonts :
        /\ dbFile = StoreWithFonts(n)
        /\ arg \in [Procs -> RaceCalls(1, n) \cup RaceCalls(2, n)]
        /\ \A p \in Procs : arg[p] \in RaceCalls(p, n)
        /\ pre = [dbFile |-> StoreWithFonts(n), uploads |-> {}]
        /\ uploads = {}
        /\ now = 1
        /\ nextUuid = 1
        /\ op = "race"
        /\ ret = [p \in Procs |-> Null]
        /\ status = 0
        /\ backups = NoBackups
        /\ taken = {}
        /\ pc = [p \in Procs |-> "read"]
        /\ local = [p \in Procs |-> AbsentFile]
        /\ order = <<>>
        /\ fontRows = <<>>
        /\ app = AppMounted

\* `const data = await this.read()`: local[p] is the file data was parsed from
Race_read(p) ==
    /\ pc[p] = "read"
    /\ pc' = [pc EXCEPT ![p] = "write"]
    /\ local' = [local EXCEPT ![p] = JsonDatabase_ensureDatabase(dbFile)]
    /\ order' = Append(order, <<p, "read">>)
    /\ dbFile' = JsonDatabase_ensureDatabase(dbFile)
    /\ UNCHANGED <<uploads, now, nextUuid, op, arg, ret, status, pre>>
    /\ UNCHANGED <<backupVars, formVars, appVars>>

\* the file after the call's push and write(data), data read from file `read`
RaceWritten(read, call) ==
    IF call.method = "addFont"
    THEN JsonDatabase_addFont(read, call.value)
    ELSE JsonDatabase_addFontGroup(read, call.value)

\* `data.fonts.push(font)` (or `data.fontGroups.push(fontGroup)`) and
\* `await this.write(data)`: the whole file is replaced and the call resolves
Race_write(p) ==
    /\ pc[p] = "write"
    /\ pc' = [pc EXCEPT ![p] = "done"]
    /\ dbFile' = RaceWritten(local[p], arg[p])
    /\ order' = Append(order, <<p, "write">>)
    /\ ret' = [ret EXCEPT ![p] = Undefined]
    /\ UNCHANGED <<uploads, now, nextUuid, op, arg, status, pre, local>>
    /\ UNCHANGED <<backupVars, formVars, appVars>>

RaceNext == \E p \in Procs : Race_read(p) \/ Race_write(p)

RaceSpec == RaceInit /\ [][RaceNext]_vars

\* ---------------------------------------------------------------- ServiceRaceSpec
\* createFontGroup or updateFontGroup (process 1) in flight together with
\* deleteFont of one of the requested fonts (process 2).  Each method runs until
\* its next await; every store read and every store write is one step, as in
\* RaceSpec, and so is fs.unlink.  Every fs call but unlink succeeds.

GroupProc == 1
DeleteProc == 2

\* the group stored before the two calls start, and the id uuidv4() gives the
\* group createFontGroup builds
StoredGroupId == MaxRaceFonts + 1
NewGroupId == MaxRaceFonts + 2

\* a store of n uploaded fonts and one group of fonts 1 and 2
ServiceRaceStore(n) ==
    JsonDatabase_addFontGroup(
        StoreWithFonts(n),
        NewFontGroup(StoredGroupId, StoreGroupName,
                     SelectedFonts(<<1, 2>>, JsonDatabase_read(StoreWithFonts(n)).fonts), 0, 0))

\* the binaries of the stored fonts
UploadsOf(f) == {font.filename : font \in Range(JsonDatabase_read(f).fonts)}

\* the requests of process 1: a CreateFontGroupRequest or an
\* UpdateFontGroupRequest for the stored group, of two ids of stored fonts
GroupCalls(n) ==
    {[method |-> "createFontGroup",
      request |-> [name |-> StoreNewGroupName, fontIds |-> fontIds]]
        : fontIds \in [1..2 -> 1..n]}
    \cup
    {[method |-> "updateFontGroup",
      request |-> [id |-> StoredGroupId, name |-> StoreNewGroupName, fontIds |-> fontIds]]
        : fontIds \in [1..2 -> 1..n]}

\* the calls of process 2: deleteFont of a requested font, whose fs.unlink
\* succeeds or fails
DeleteCalls(call) ==
    {[method |-> "deleteFont", id |-> id, unlinkOk |-> unlinkOk]
        : id \in Range(call.request.fontIds), unlinkOk \in BOOLEAN}

\* what a call holds between its awaits: the file `data` was parsed from, the
\* font found by getFontById, the group found by getFontGroupById or built
NoLocals == [file |-> AbsentFile, font |-> <<>>, group |-> <<>>]

ServiceRaceInit ==
    \E n \in 2..MaxRaceFonts :
        \E call \in GroupCalls(n) :
            \E delete \in DeleteCalls(call) :
                /\ dbFile = ServiceRaceStore(n)
                /\ uploads = UploadsOf(ServiceRaceStore(n))
                /\ pre = [dbFile |-> ServiceRaceStore(n),
                          uploads |-> UploadsOf(ServiceRaceStore(n))]
                /\ arg = (GroupProc :> call) @@ (DeleteProc :> delete)
                /\ pc = (GroupProc :> IF call.method = "createFontGroup"
                                      THEN "getAllFonts" ELSE "getFontGroupById")
                        @@ (DeleteProc :> "getFontById")
    /\ now = 1
    /\ nextUuid = NewGroupId
    /\ op = "serviceRace"
    /\ ret = [p \in Procs |-> Undefined]
    /\ status = 0
    /\ backups = NoBackups
    /\ taken = {}
    /\ local = [p \in Procs |-> NoLocals]
    /\ order = <<>>
    /\ fontRows = <<>>
    /\ app = AppMounted

ServiceRaceFrame == UNCHANGED <<now, nextUuid, op, arg, status, pre, backupVars, formVars, appVars>>

\* the call of process p resolves with value
Resolve(p, value) ==
    /\ pc' = [pc EXCEPT ![p] = "done"]
    /\ ret' = [ret EXCEPT ![p] = value]

\* updateFontGroup: `const existingGroup = await JsonDatabase.getFontGroupById(request.id)`,
\* `if (!existingGroup) return null`, `if (request.fontIds.length < 2) return null`
ServiceRace_getFontGroupById ==
    LET p == GroupProc
        existingGroup == JsonDatabase_getFontGroupById(dbFile, arg[p].request.id)
    IN /\ pc[p] = "getFontGroupById"
       /\ order' = Append(order, <<p, "getFontGroupById">>)
       /\ dbFile' = JsonDatabase_ensureDatabase(dbFile)
       /\ IF existingGroup = <<>> \/ TooFewFonts(arg[p].request.fontIds)
          THEN /\ Resolve(p, Null)
               /\ UNCHANGED local
          ELSE /\ pc' = [pc EXCEPT ![p] = "getAllFonts"]
               /\ local' = [local EXCEPT ![p].group = existingGroup]
               /\ UNCHANGED ret
       /\ UNCHANGED uploads
       /\ ServiceRaceFrame

\* `const allFonts = await JsonDatabase.getAllFonts()`, the selection, `return
\* null // Some fonts not found`, and the group object built from the selection
ServiceRace_getAllFonts ==
    LET p == GroupProc
        request == arg[p].request
        allFonts == JsonDatabase_getAllFonts(dbFile)
        selectedFonts == SelectedFonts(request.fontIds, allFonts)
        group == IF arg[p].method = "createFontGroup"
                 THEN NewFontGroup(nextUuid, request.name, selectedFonts, now, now)
                 ELSE UpdatedGroup(local[p].group[1], request.name, selectedFonts, now)
    IN /\ pc[p] = "getAllFonts"
       /\ order' = Append(order, <<p, "getAllFonts">>)
       /\ dbFile' = JsonDatabase_ensureDatabase(dbFile)
       /\ IF SomeFontsNotFound(selectedFonts, request.fontIds)
          THEN /\ Resolve(p, Null)
               /\ UNCHANGED local
          ELSE /\ pc' = [pc EXCEPT ![p] = "read"]
               /\ local' = [local EXCEPT ![p].group = <<group>>]
               /\ UNCHANGED ret
       /\ UNCHANGED uploads
       /\ ServiceRaceFrame

\* deleteFont: `const font = await JsonDatabase.getFontById(id)`, `if (!font) return false`
ServiceRace_getFontById ==
    LET p == DeleteProc
        font == JsonDatabase_getFontById(dbFile, arg[p].id)
    IN /\ pc[p] = "getFontById"
       /\ order' = Append(order, <<p, "getFontById">>)
       /\ dbFile' = JsonDatabase_ensureDatabase(dbFile)
       /\ IF font = <<>>
          THEN /\ Resolve(p, Bool(FALSE))
               /\ UNCHANGED local
          ELSE /\ pc' = [pc EXCEPT ![p] = "unlink"]
               /\ local' = [local EXCEPT ![p].font = font]
               /\ UNCHANGED ret
       /\ UNCHANGED uploads
       /\ ServiceRaceFrame

\* `try { await fs.unlink(filePath) } catch { }`
ServiceRace_unlink ==
    LET p == DeleteProc
    IN /\ pc[p] = "unlink"
       /\ pc' = [pc EXCEPT ![p] = "read"]
       /\ order' = Append(order, <<p, "unlink">>)
       /\ uploads' = IF arg[p].unlinkOk
                     THEN uploads \ {local[p].font[1].filename}
                     ELSE uploads
       /\ UNCHANGED <<dbFile, ret, local>>
       /\ ServiceRaceFrame

\* `const data = await this.read()` of addFontGroup, updateFontGroup and deleteFont
ServiceRace_read(p) ==
    /\ pc[p] = "read"
    /\ pc' = [pc EXCEPT ![p] = "write"]
    /\ local' = [local EXCEPT ![p].file = JsonDatabase_ensureDatabase(dbFile)]
    /\ order' = Append(order, <<p, "read">>)
    /\ dbFile' = JsonDatabase_ensureDatabase(dbFile)
    /\ UNCHANGED <<uploads, ret>>
    /\ ServiceRaceFrame

\* [file, ret]: the rest of the store method of `call` on the data parsed from
\* file `read`, the primary file being `f`: the change and `await
\* this.write(data)`, or no write when findIndex gave -1; and the value the
\* service method returns
ServiceRaceWritten(f, read, call, group) ==
    IF call.method = "createFontGroup"
    THEN [file |-> JsonDatabase_addFontGroup(read, group), ret |-> Obj(group)]
    ELSE IF call.method = "updateFontGroup"
    THEN LET updated == JsonDatabase_updateFontGroup(read, group)
         IN IF updated.result
            THEN [file |-> updated.file, ret |-> Obj(group)]
            ELSE [file |-> f, ret |-> Null]
    ELSE LET deleted == JsonDatabase_deleteFont(read, call.id)
         IN IF deleted.result
            THEN [file |-> deleted.file, ret |-> Bool(TRUE)]
            ELSE [file |-> f, ret |-> Bool(FALSE)]

ServiceRace_write(p) ==
    LET r == ServiceRaceWritten(dbFile, local[p].file, arg[p],
                                IF p = GroupProc THEN local[p].group[1] ELSE Null)
    IN /\ pc[p] = "write"
       /\ order' = Append(order, <<p, "write">>)
       /\ dbFile' = r.file
       /\ Resolve(p, r.ret)
       /\ UNCHANGED <<uploads, local>>
       /\ ServiceRaceFrame

ServiceRaceNext ==
    \/ ServiceRace_getFontGroupById
    \/ ServiceRace_getAllFonts
    \/ ServiceRace_getFontById
    \/ ServiceRace_unlink
    \/ \E p \in Procs : ServiceRace_read(p)
    \/ \E p \in Procs : ServiceRace_write(p)

ServiceRaceSpec == ServiceRaceInit /\ [][ServiceRaceNext]_vars

\* ---------------------------------------------------------------- FaultSpec
\* The HTTP handlers, one request at a time as in Spec, where the fs.writeFile
\* of the store's write() can fail (WriteOutcomes) as well as fs.unlink.  The
\* error write() throws passes through the store method and the service method
\* to the handler's catch, which answers 500.  The write of the uploaded binary
\* (fs.writeFile(uploadPath, ...)) succeeds.

FaultIds == 1..MaxFaultUuid
FaultFontIdLists == UNION {[1..n -> FaultIds] : n \in 0..MaxIds}

\* [file, uploads, ret, status] of a handler whose service call, all fs calls
\* succeeding, gives r and answers `answer`: `wrote` says whether the call
\* reaches write(), `outcome` how that write ends
Faulty(f, r, answer, wrote, outcome) ==
    IF wrote
    THEN [file |-> StoreWrite(f, r.file, outcome),
          uploads |-> r.uploads,
          ret |-> StoreResult(r.ret, outcome),
          status |-> IF outcome = "ok" THEN answer ELSE 500]
    ELSE [file |-> r.file, uploads |-> r.uploads, ret |-> r.ret, status |-> answer]

FaultFrame == UNCHANGED <<backupVars, raceVars, formVars, appVars>>

\* POST /api/fonts/upload
Fault_UploadFont ==
    \E originalName \in UploadNames, outcome \in WriteOutcomes :
        /\ op = "idle"
        /\ arg' = [originalName |-> originalName, outcome |-> outcome]
        /\ pre' = Snapshot
        /\ IF toLowerCase(originalName[2]) # ".ttf"
           THEN /\ outcome = "ok"
                /\ op' = "upload"
                /\ ret' = Null
                /\ status' = 400
                /\ UNCHANGED <<dbFile, uploads, nextUuid>>
           ELSE /\ nextUuid <= MaxFaultUuid
                /\ op' = "saveFont"
                /\ LET r == Faulty(dbFile,
                                   FontService_saveFont(dbFile, uploads, nextUuid,
                                                        originalName, now),
                                   201, TRUE, outcome)
                   IN /\ dbFile' = r.file
                      /\ uploads' = r.uploads
                      /\ ret' = r.ret
                      /\ status' = r.status
                /\ nextUuid' = nextUuid + 1
        /\ UNCHANGED now
        /\ FaultFrame

\* DELETE /api/fonts/:id
Fault_DeleteFont ==
    \E id \in FaultIds, unlinkOk \in BOOLEAN, outcome \in WriteOutcomes :
        /\ op = "idle"
        /\ LET found == JsonDatabase_getFontById(dbFile, id) # <<>>
               s == FontService_deleteFont(dbFile, uploads, id, unlinkOk)
               r == Faulty(dbFile, s, IF s.ret.value THEN 200 ELSE 404, found, outcome)
           IN \* fs.unlink and write() run only when the font was found
              /\ ~found => (unlinkOk /\ outcome = "ok")
              /\ dbFile' = r.file
              /\ uploads' = r.uploads
              /\ ret' = r.ret
              /\ status' = r.status
        /\ op' = "deleteFont"
        /\ arg' = [id |-> id, unlinkOk |-> unlinkOk, outcome |-> outcome]
        /\ pre' = Snapshot
        /\ UNCHANGED <<now, nextUuid>>
        /\ FaultFrame

\* POST /api/font-groups
Fault_CreateFontGroup ==
    \E name \in GroupNames, fontIds \in FaultFontIdLists, t2 \in now..(now + 1),
       outcome \in WriteOutcomes :
        /\ op = "idle"
        /\ t2 <= MaxClock
        /\ LET request == [name |-> name, fontIds |-> fontIds]
               s == FontService_createFontGroup(dbFile, uploads, nextUuid, request, now, t2)
               r == Faulty(dbFile, s, IF s.ret = Null THEN 400 ELSE 201,
                           s.ret # Null, outcome)
           IN /\ op' = "createFontGroup"
              /\ arg' = [name |-> name, fontIds |-> fontIds, outcome |-> outcome]
              /\ pre' = Snapshot
              /\ dbFile' = r.file
              /\ ret' = r.ret
              /\ status' = r.status
              /\ IF s.ret = Null
                 THEN /\ t2 = now
                      /\ outcome = "ok"
                      /\ UNCHANGED <<now, nextUuid>>
                 ELSE /\ nextUuid <= MaxFaultUuid
                      /\ nextUuid' = nextUuid + 1
                      /\ now' = t2
        /\ UNCHANGED uploads
        /\ FaultFrame

\* PUT /api/font-groups/:id
Fault_UpdateFontGroup ==
    \E id \in FaultIds, name \in GroupNames, fontIds \in FaultFontIdLists,
       outcome \in WriteOutcomes :
        /\ op = "idle"
        /\ LET request == [id |-> id, name |-> name, fontIds |-> fontIds]
               s == FontService_updateFontGroup(dbFile, uploads, request, now)
               r == Faulty(dbFile, s, IF s.ret = Null THEN 400 ELSE 200,
                           s.ret # Null, outcome)
           IN /\ s.ret = Null => outcome = "ok"
              /\ op' = "updateFontGroup"
              /\ arg' = [id |-> id, name |-> name, fontIds |-> fontIds, outcome |-> outcome]
              /\ pre' = Snapshot
              /\ dbFile' = r.file
              /\ ret' = r.ret
              /\ status' = r.status
        /\ UNCHANGED <<uploads, now, nextUuid>>
        /\ FaultFrame

\* DELETE /api/font-groups/:id
Fault_DeleteFontGroup ==
    \E id \in FaultIds, outcome \in WriteOutcomes :
        /\ op = "idle"
        /\ LET s == FontService_deleteFontGroup(dbFile, uploads, id)
               r == Faulty(dbFile, s, IF s.ret.value THEN 200 ELSE 404,
                           s.ret.value, outcome)
           IN /\ ~s.ret.value => outcome = "ok"
              /\ op' = "deleteFontGroup"
              /\ arg' = [id |-> id, outcome |-> outcome]
              /\ pre' = Snapshot
              /\ dbFile' = r.file
              /\ ret' = r.ret
              /\ status' = r.status
        /\ UNCHANGED <<uploads, now, nextUuid>>
        /\ FaultFrame

FaultNext ==
    \/ Tick
    \/ Respond
    \/ Fault_UploadFont
    \/ ListFonts
    \/ Fault_DeleteFont
    \/ Fault_CreateFontGroup
    \/ ListFontGroups
    \/ Fault_UpdateFontGroup
    \/ Fault_DeleteFontGroup

FaultSpec == Init /\ [][FaultNext]_vars

\* ---------------------------------------------------------------- FormSpec
\* The fontRows state of FontGroupForm under the user's clicks and edits.  A
\* row id, the decimal string of a number, is modelled by that number; '' (no
\* font selected, no name) is <<>>.

\* the `fonts` prop: the fonts the server lists
FormFonts ==
    <<FontToJSON(NewFont(1, <<"Arial", ".TTF">>, 0)),
      FontToJSON(NewFont(2, <<"Georgia", ".TTF">>, 0))>>
\* the values of the font <select>: '' and the ids of the fonts
FormFontChoices == {<<>>} \cup {<<id>> : id \in IdsOf(FormFonts)}
\* the edits of the number inputs: <<field, value>>
FormEdits == {<<"specificSize", "2.00">>, <<"priceChange", "5">>}

\* the empty row of id `id`
EmptyRow(id) ==
    [id |-> id,
     fontName |-> <<>>,
     selectedFontId |-> <<>>,
     specificSize |-> "1.00",
     priceChange |-> "0"]

FormInit ==
    /\ fontRows = <<EmptyRow(1)>>
    /\ app = AppMounted
    /\ dbFile = AbsentFile
    /\ uploads = {}
    /\ now = 0
    /\ nextUuid = 1
    /\ op = "form"
    /\ arg = NoRequest
    /\ ret = Null
    /\ status = 0
    /\ pre = [dbFile |-> AbsentFile, uploads |-> {}]
    /\ backups = NoBackups
    /\ taken = {}
    /\ pc = <<>>
    /\ local = <<>>
    /\ order = <<>>

\* fontRows after addRow()
addRow(rows) == Append(rows, EmptyRow(Len(rows) + 1))
\* fontRows after removeRow(id)
removeRow(rows, id) == IF Len(rows) > 1 THEN FilterNotId(rows, id) ELSE rows
\* fontRows after updateRow(id, field, value)
updateRow(rows, id, field, value) ==
    [i \in 1..Len(rows) |->
        IF rows[i].id = id THEN [rows[i] EXCEPT ![field] = value] ELSE rows[i]]
\* fontRows after handleFontSelection(id, fontId)
handleFontSelection(rows, id, fontId) ==
    IF fontId # <<>> /\ fontId[1] \in IdsOf(FormFonts)
    THEN updateRow(updateRow(rows, id, "selectedFontId", fontId),
                   id, "fontName", ById(FormFonts, fontId[1]).name)
    ELSE IF fontId = <<>>
    THEN updateRow(updateRow(rows, id, "selectedFontId", <<>>), id, "fontName", <<>>)
    ELSE rows

FormFrame == UNCHANGED <<serverVars, backupVars, raceVars, appVars>>

\* the "+ Add Row" button
Form_addRow ==
    /\ Len(fontRows) < MaxRows
    /\ fontRows' = addRow(fontRows)
    /\ FormFrame

\* the remove button of a row, rendered while there is more than one row
Form_removeRow ==
    \E i \in 1..Len(fontRows) :
        /\ Len(fontRows) > 1
        /\ fontRows' = removeRow(fontRows, fontRows[i].id)
        /\ FormFrame

\* the font <select> of a row
Form_handleFontSelection ==
    \E i \in 1..Len(fontRows), fontId \in FormFontChoices :
        /\ fontRows' = handleFontSelection(fontRows, fontRows[i].id, fontId)
        /\ FormFrame

\* the number inputs of a row
Form_updateRow ==
    \E i \in 1..Len(fontRows), edit \in FormEdits :
        /\ fontRows' = updateRow(fontRows, fontRows[i].id, edit[1], edit[2])
        /\ FormFrame

\* handleCancel (and a successful create): the form is reset to one empty row
Form_reset ==
    /\ fontRows' = <<EmptyRow(1)>>
    /\ FormFrame

FormNext ==
    \/ Form_addRow
    \/ Form_removeRow
    \/ Form_handleFontSelection
    \/ Form_updateRow
    \/ Form_reset

FormSpec == FormInit /\ [][FormNext]_vars

\* ---------------------------------------------------------------- AppSpec
\* The client's App component in front of the server: one browser, one
\* request at a time, every fs write succeeding.  A click is one step: the
\* request the component sends, the handler's run on the server and the
\* callback App gets with the response.  A response body is JSON, so the
\* records the client holds carry their dates as strings.  The rows of the
\* font group form are FormSpec's; here a submit draws the ids the rows can
\* hold.

\* setFonts(prev => [...prev, font])
handleFontUploaded(a, font) == [a EXCEPT !.fonts = Append(@, font)]
\* setFonts(prev => prev.filter(f => f.id !== fontId))
handleFontDeleted(a, fontId) == [a EXCEPT !.fonts = FilterNotId(@, fontId)]
\* setFontGroups(prev => [...prev, fontGroup])
handleFontGroupCreated(a, fontGroup) == [a EXCEPT !.fontGroups = Append(@, fontGroup)]
\* setFontGroups(prev => prev.map(fg => fg.id === fontGroup.id ? fontGroup : fg))
\* and setEditingGroup(null)
handleFontGroupUpdated(a, fontGroup) ==
    [a EXCEPT !.fontGroups = [i \in 1..Len(a.fontGroups) |->
                                 IF a.fontGroups[i].id = fontGroup.id
                                 THEN fontGroup
                                 ELSE a.fontGroups[i]],
              !.editingGroup = Null]
\* setFontGroups(prev => prev.filter(fg => fg.id !== groupId))
handleFontGroupDeleted(a, groupId) == [a EXCEPT !.fontGroups = FilterNotId(@, groupId)]
\* setEditingGroup(group)
handleEditGroup(a, group) == [a EXCEPT !.editingGroup = Obj(group)]
\* setEditingGroup(null)
handleCancelEdit(a) == [a EXCEPT !.editingGroup = Null]

\* the fonts the form's rows can hold: those of the font <select> (the `fonts`
\* prop) and, while a group is edited, those the rows were filled with
SelectableIds(a) ==
    IdsOf(a.fonts) \cup (IF a.editingGroup = Null
                         THEN {}
                         ELSE IdsOf(a.editingGroup.value.fonts))
\* the fontIds handleSubmit sends: at least 2 selected fonts, no duplicates
SubmittedFontIds(a) ==
    {fontIds \in UNION {[1..n -> SelectableIds(a)] : n \in 2..MaxIds} :
        \A i, j \in 1..Len(fontIds) : fontIds[i] = fontIds[j] => i = j}

AppFrame == UNCHANGED <<backupVars, raceVars, formVars>>

\* the mount of App (page load or reload): useState's initial values, then
\* loadFonts() and loadFontGroups()
App_load ==
    /\ op = "idle"
    /\ op' = "load"
    /\ arg' = NoRequest
    /\ pre' = Snapshot
    /\ ret' = Obj(JsonDatabase_read(dbFile))
    /\ status' = 200
    /\ dbFile' = JsonDatabase_ensureDatabase(dbFile)
    /\ app' = [AppMounted EXCEPT !.fonts = JsonDatabase_getAllFonts(dbFile),
                                 !.fontGroups = JsonDatabase_getAllFontGroups(dbFile)]
    /\ UNCHANGED <<uploads, now, nextUuid>>
    /\ AppFrame

\* FontUploadForm: a dropped .ttf file is posted and onFontUploaded(data.data)
App_upload ==
    \E originalName \in {n \in UploadNames : toLowerCase(n[2]) = ".ttf"} :
        /\ op = "idle"
        /\ nextUuid <= MaxAppUuid
        /\ op' = "saveFont"
        /\ arg' = [originalName |-> originalName]
        /\ pre' = Snapshot
        /\ LET r == FontService_saveFont(dbFile, uploads, nextUuid, originalName, now)
           IN /\ dbFile' = r.file
              /\ uploads' = r.uploads
              /\ ret' = r.ret
              /\ app' = handleFontUploaded(app, FontToJSON(r.ret.value))
        /\ status' = 201
        /\ nextUuid' = nextUuid + 1
        /\ UNCHANGED now
        /\ AppFrame

\* FontList.handleDelete of a listed font: DELETE /api/fonts/:id and, when
\* data.success, onFontDeleted(fontId)
App_deleteFont ==
    \E i \in 1..Len(app.fonts), unlinkOk \in BOOLEAN :
        LET id == app.fonts[i].id
            r == FontService_deleteFont(dbFile, uploads, id, unlinkOk)
        IN /\ op = "idle"
           /\ JsonDatabase_getFontById(dbFile, id) = <<>> => unlinkOk
           /\ op' = "deleteFont"
           /\ arg' = [id |-> id, unlinkOk |-> unlinkOk]
           /\ pre' = Snapshot
           /\ dbFile' = r.file
           /\ uploads' = r.uploads
           /\ ret' = r.ret
           /\ status' = IF r.ret.value THEN 200 ELSE 404
           /\ app' = IF r.ret.value THEN handleFontDeleted(app, id) ELSE app
           /\ UNCHANGED <<now, nextUuid>>
           /\ AppFrame

\* FontGroupForm.handleSubmit with no group being edited: POST /api/font-groups
\* and, when data.success, onFontGroupCreated(data.data)
App_createFontGroup ==
    \E name \in GroupNames, fontIds \in SubmittedFontIds(app), t2 \in now..(now + 1) :
        /\ op = "idle"
        /\ app.editingGroup = Null
        /\ t2 <= MaxClock
        /\ LET request == [name |-> name, fontIds |-> fontIds]
               r == FontService_createFontGroup(dbFile, uploads, nextUuid, request, now, t2)
           IN /\ op' = "createFontGroup"
              /\ arg' = request
              /\ pre' = Snapshot
              /\ dbFile' = r.file
              /\ ret' = r.ret
              /\ IF r.ret = Null
                 THEN /\ t2 = now
                      /\ status' = 400
                      /\ app' = app
                      /\ UNCHANGED <<now, nextUuid>>
                 ELSE /\ nextUuid <= MaxAppUuid
                      /\ status' = 201
                      /\ app' = handleFontGroupCreated(app, GroupToJSON(r.ret.value))
                      /\ nextUuid' = nextUuid + 1
                      /\ now' = t2
        /\ UNCHANGED uploads
        /\ AppFrame

\* FontGroupForm.handleSubmit while a group is edited: PUT /api/font-groups/:id
\* and, when data.success, onFontGroupUpdated(data.data)
App_updateFontGroup ==
    \E name \in GroupNames, fontIds \in SubmittedFontIds(app) :
        /\ op = "idle"
        /\ app.editingGroup # Null
        /\ LET request == [id |-> app.editingGroup.value.id, name |-> name,
                           fontIds |-> fontIds]
               r == FontService_updateFontGroup(dbFile, uploads, request, now)
           IN /\ op' = "updateFontGroup"
              /\ arg' = request
              /\ pre' = Snapshot
              /\ dbFile' = r.file
              /\ ret' = r.ret
              /\ status' = IF r.ret = Null THEN 400 ELSE 200
              /\ app' = IF r.ret = Null
                        THEN app
                        ELSE handleFontGroupUpdated(app, GroupToJSON(r.ret.value))
        /\ UNCHANGED <<uploads, now, nextUuid>>
        /\ AppFrame

\* FontGroupList.handleDelete of a listed group: DELETE /api/font-groups/:id
\* and, when data.success, onFontGroupDeleted(groupId)
App_deleteFontGroup ==
    \E i \in 1..Len(app.fontGroups) :
        LET id == app.fontGroups[i].id
            r == FontService_deleteFontGroup(dbFile, uploads, id)
        IN /\ op = "idle"
           /\ op' = "deleteFontGroup"
           /\ arg' = [id |-> id]
           /\ pre' = Snapshot
           /\ dbFile' = r.file
           /\ ret' = r.ret
           /\ status' = IF r.ret.value THEN 200 ELSE 404
           /\ app' = IF r.ret.value THEN handleFontGroupDeleted(app, id) ELSE app
           /\ UNCHANGED <<uploads, now, nextUuid>>
           /\ AppFrame

\* the Edit button of a listed group: onEditGroup(group)
App_editGroup ==
    \E i \in 1..Len(app.fontGroups) :
        /\ op = "idle"
        /\ op' = "handleEditGroup"
        /\ arg' = [id |-> app.fontGroups[i].id]
        /\ pre' = Snapshot
        /\ ret' = Null
        /\ status' = 0
        /\ app' = handleEditGroup(app, app.fontGroups[i])
        /\ UNCHANGED <<dbFile, uploads, now, nextUuid>>
        /\ AppFrame

\* the Cancel button of the form while a group is edited: onCancelEdit()
App_cancelEdit ==
    /\ op = "idle"
    /\ app.editingGroup # Null
    /\ op' = "handleCancelEdit"
    /\ arg' = NoRequest
    /\ pre' = Snapshot
    /\ ret' = Null
    /\ status' = 0
    /\ app' = handleCancelEdit(app)
    /\ UNCHANGED <<dbFile, uploads, now, nextUuid>>
    /\ AppFrame

AppNext ==
    \/ Tick
    \/ Respond
    \/ App_load
    \/ App_upload
    \/ App_deleteFont
    \/ App_createFontGroup
    \/ App_updateFontGroup
    \/ App_deleteFontGroup
    \/ App_editGroup
    \/ App_cancelEdit

AppSpec == Init /\ [][AppNext]_vars

\* ---------------------------------------------------------------- properties
\* the persisted document, as read() returns it, now and when the operation started
CurDoc == JsonDatabase_read(dbFile)
PreDoc == JsonDatabase_read(pre.dbFile)
\* s without its elements of the given id, by the Sequences module's SelectSeq
Without(s, id) == SelectSeq(s, LAMBDA x : x.id # id)
DocUnchanged == CurDoc = PreDoc
GroupRequest == op \in {"createFontGroup", "updateFontGroup"}

\* C1: createFontGroup and updateFontGroup reject (return null, persist nothing)
\* every request whose fontIds hold fewer than 2 distinct font ids.
C1_FewerThanTwoDistinctIdsRejected ==
    (GroupRequest /\ Cardinality(Range(arg.fontIds)) < 2)
        => (ret = Null /\ DocUnchanged)

\* C2: in every reachable state every persisted font group embeds at least 2 fonts.
C2_EveryGroupEmbedsTwoFonts ==
    \A i \in 1..Len(CurDoc.fontGroups) : Len(CurDoc.fontGroups[i].fonts) >= 2

\* C2 (amended): a group embeds at least 2 fonts when createFontGroup or
\* updateFontGroup persists it, and a group of fewer than 2 fonts (1 or 0) is
\* there only because deleteFont stripped a deleted font from it: an operation
\* leaves a group below 2 fonts only if the group was below 2 already or the
\* operation is the deleteFont of one of its members.
C2_GroupsShrinkOnlyByDeleteFont ==
    /\ (GroupRequest /\ ret # Null)
           => /\ Len(ret.value.fonts) >= 2
              /\ ret.value.id \in IdsOf(CurDoc.fontGroups)
              /\ Len(ById(CurDoc.fontGroups, ret.value.id).fonts) >= 2
    /\ \A i \in 1..Len(CurDoc.fontGroups) :
           LET g == CurDoc.fontGroups[i]
           IN Len(g.fonts) < 2
                  => /\ g.id \in IdsOf(PreDoc.fontGroups)
                     /\ LET h == ById(PreDoc.fontGroups, g.id)
                        IN \/ Len(h.fonts) < 2
                           \/ op = "deleteFont" /\ arg.id \in IdsOf(h.fonts)

\* a deleteFont has just taken a group of 2 different fonts below 2
C2_Witness ==
    /\ op = "deleteFont"
    /\ ret = Bool(TRUE)
    /\ \E i \in 1..Len(CurDoc.fontGroups) :
           /\ Len(CurDoc.fontGroups[i].fonts) < 2
           /\ Cardinality(IdsOf(PreDoc.fontGroups[i].fonts)) >= 2

\* C3: createFontGroup called with fewer than 2 font ids (0 or 1) returns null
\* and leaves the persisted document unchanged (the file is not even touched),
\* whatever the store holds.
C3_CreateWithTooFewIdsRejected ==
    (op = "createFontGroup" /\ Len(arg.fontIds) < 2)
        => /\ ret = Null
           /\ status = 400
           /\ dbFile = pre.dbFile
           /\ uploads = pre.uploads

\* a create request naming one stored font has been rejected
C3_Witness ==
    /\ op = "createFontGroup"
    /\ Len(arg.fontIds) = 1
    /\ arg.fontIds[1] \in IdsOf(PreDoc.fonts)
    /\ ret = Null

\* C4: createFontGroup and updateFontGroup called with a fontIds list in which
\* at least one id is not in the stored fonts collection return null and leave
\* the persisted document unchanged.
C4_UnresolvedIdRejected ==
    (GroupRequest /\ \E i \in 1..Len(arg.fontIds) : arg.fontIds[i] \notin IdsOf(PreDoc.fonts))
        => /\ ret = Null
           /\ status = 400
           /\ DocUnchanged
           /\ uploads = pre.uploads

\* an update of a stored group naming a stored font and an unknown id has been
\* rejected
C4_Witness ==
    /\ op = "updateFontGroup"
    /\ arg.id \in IdsOf(PreDoc.fontGroups)
    /\ Len(arg.fontIds) >= 2
    /\ \E i \in 1..Len(arg.fontIds) : arg.fontIds[i] \in IdsOf(PreDoc.fonts)
    /\ \E i \in 1..Len(arg.fontIds) : arg.fontIds[i] \notin IdsOf(PreDoc.fonts)
    /\ ret = Null

\* C5: createFontGroup called with 2 or more ids that all resolve appends
\* exactly one new group whose fonts have the length and order of the requested
\* fontIds, each the stored Font record of that id, and returns that group;
\* existing groups and the fonts collection are unchanged.
C5_CreateAppendsRequestedGroup ==
    (/\ op = "createFontGroup"
     /\ Len(arg.fontIds) >= 2
     /\ \A i \in 1..Len(arg.fontIds) : arg.fontIds[i] \in IdsOf(PreDoc.fonts))
        => /\ ret # Null
           /\ status = 201
           /\ CurDoc.fontGroups = Append(PreDoc.fontGroups, GroupToJSON(ret.value))
           /\ CurDoc.fonts = PreDoc.fonts
           /\ ret.value.name = arg.name
           /\ Len(ret.value.fonts) = Len(arg.fontIds)
           /\ \A i \in 1..Len(arg.fontIds) :
                  /\ ret.value.fonts[i].id = arg.fontIds[i]
                  /\ ret.value.fonts[i] \in Range(PreDoc.fonts)

\* a group of two different fonts, requested in the reverse of the store's
\* order, has been created
C5_Witness ==
    /\ op = "createFontGroup"
    /\ ret # Null
    /\ Len(arg.fontIds) = 2
    /\ FindIndex(PreDoc.fonts, arg.fontIds[1]) > FindIndex(PreDoc.fonts, arg.fontIds[2])
    /\ Len(CurDoc.fontGroups) = 1

\* C6: deleteFont(id) of a stored font removes that font from the fonts
\* collection and from the embedded fonts of every group, and changes nothing
\* else in the document: other fonts, the other members of each group and their
\* order, each group's id, name and timestamps, the number and order of groups.
C6_DeleteFontFrame ==
    (op = "deleteFont" /\ arg.id \in IdsOf(PreDoc.fonts))
        => /\ ret = Bool(TRUE)
           /\ CurDoc.fonts = Without(PreDoc.fonts, arg.id)
           /\ Len(CurDoc.fonts) = Len(PreDoc.fonts) - 1
           /\ Len(CurDoc.fontGroups) = Len(PreDoc.fontGroups)
           /\ \A i \in 1..Len(PreDoc.fontGroups) :
                  LET h == PreDoc.fontGroups[i]
                      g == CurDoc.fontGroups[i]
                  IN /\ g.fonts = Without(h.fonts, arg.id)
                     /\ g.id = h.id
                     /\ g.name = h.name
                     /\ g.createdAt = h.createdAt
                     /\ g.updatedAt = h.updatedAt

\* a font has been deleted that was a member of a group beside another font,
\* while another font stays in the store
C6_Witness ==
    /\ op = "deleteFont"
    /\ ret = Bool(TRUE)
    /\ CurDoc.fonts # <<>>
    /\ \E i \in 1..Len(PreDoc.fontGroups) :
           /\ arg.id \in IdsOf(PreDoc.fontGroups[i].fonts)
           /\ IdsOf(PreDoc.fontGroups[i].fonts) # {arg.id}

\* C7: deleteFont and deleteFontGroup called with an id that is not stored
\* report not-found (false, HTTP 404) and leave the persisted document and the
\* uploaded binaries unchanged; a delete of a stored id succeeds, and the same
\* delete repeated right after it reports not-found and changes nothing.
C7_DeleteOfMissingIdIsNotFound ==
    /\ (op = "deleteFont" /\ arg.id \notin IdsOf(PreDoc.fonts))
           => (ret = Bool(FALSE) /\ status = 404 /\ DocUnchanged /\ uploads = pre.uploads)
    /\ (op = "deleteFontGroup" /\ arg.id \notin IdsOf(PreDoc.fontGroups))
           => (ret = Bool(FALSE) /\ status = 404 /\ DocUnchanged /\ uploads = pre.uploads)
    /\ (op = "deleteFont" /\ arg.id \in IdsOf(PreDoc.fonts))
           => /\ ret = Bool(TRUE)
              /\ status = 200
              /\ arg.id \notin IdsOf(CurDoc.fonts)
              /\ \A unlinkOk \in BOOLEAN :
                     LET again == FontService_deleteFont(dbFile, uploads, arg.id, unlinkOk)
                     IN /\ again.ret = Bool(FALSE)
                        /\ JsonDatabase_read(again.file) = CurDoc
                        /\ again.uploads = uploads
    /\ (op = "deleteFontGroup" /\ arg.id \in IdsOf(PreDoc.fontGroups))
           => /\ ret = Bool(TRUE)
              /\ status = 200
              /\ arg.id \notin IdsOf(CurDoc.fontGroups)
              /\ LET again == FontService_deleteFontGroup(dbFile, uploads, arg.id)
                 IN /\ again.ret = Bool(FALSE)
                    /\ JsonDatabase_read(again.file) = CurDoc
                    /\ again.uploads = uploads

\* a font whose binary outlived its own deletion (fs.unlink had failed) has been
\* deleted a second time, with other groups and binaries in place
C7_Witness ==
    /\ op = "deleteFont"
    /\ ret = Bool(FALSE)
    /\ status = 404
    /\ <<arg.id, ".ttf">> \in uploads
    /\ CurDoc.fonts # <<>>

\* C8: every successful updateFontGroup keeps the group's createdAt and sets
\* updatedAt to a value greater than or equal to the previous updatedAt.
C8_UpdateKeepsCreatedAtAdvancesUpdatedAt ==
    (op = "updateFontGroup" /\ ret # Null)
        => /\ arg.id \in IdsOf(PreDoc.fontGroups)
           /\ arg.id \in IdsOf(CurDoc.fontGroups)
           /\ LET old == ById(PreDoc.fontGroups, arg.id)
                  new == ById(CurDoc.fontGroups, arg.id)
              IN /\ new.createdAt = old.createdAt
                 /\ TimeOf(new.updatedAt) >= TimeOf(old.updatedAt)
                 /\ DateToJSON(ret.value.createdAt) = old.createdAt
                 /\ DateToJSON(ret.value.updatedAt) = new.updatedAt

\* a group has been updated at a later clock reading than its creation
C8_Witness ==
    /\ op = "updateFontGroup"
    /\ ret # Null
    /\ LET old == ById(PreDoc.fontGroups, arg.id)
           new == ById(CurDoc.fontGroups, arg.id)
       IN /\ TimeOf(new.updatedAt) > TimeOf(old.updatedAt)
          /\ TimeOf(new.updatedAt) > TimeOf(new.createdAt)

\* C9: the group returned and persisted by a successful createFontGroup has
\* createdAt equal to updatedAt.
C9_CreatedAtEqualsUpdatedAt ==
    (op = "createFontGroup" /\ ret # Null)
        => /\ TimeOf(ret.value.createdAt) = TimeOf(ret.value.updatedAt)
           /\ LET g == ById(CurDoc.fontGroups, ret.value.id)
              IN g.createdAt = g.updatedAt

\* C10: the ids of the fonts in the store are pairwise distinct; saveFont
\* appends a record whose id differs from every id already stored.
C10_FontIdsUnique ==
    /\ \A i, j \in 1..Len(CurDoc.fonts) :
           CurDoc.fonts[i].id = CurDoc.fonts[j].id => i = j
    /\ (op = "saveFont" /\ ret # Null)
           => /\ ret.value.id \notin IdsOf(PreDoc.fonts)
              /\ CurDoc.fonts = Append(PreDoc.fonts, FontToJSON(ret.value))

\* a font has been uploaded into a store that holds another font, after
\* earlier uuids went to a group or to a font since deleted
C10_Witness ==
    /\ op = "saveFont"
    /\ ret # Null
    /\ Len(CurDoc.fonts) = 2
    /\ ret.value.id > Len(CurDoc.fonts)

\* C14: deleteFont(id) of a stored font removes the font's record and its copies
\* in the groups and returns true (HTTP 200) whether fs.unlink of the binary
\* succeeded or failed: the document and the result are those of the other
\* outcome too; only the binary stays behind when the removal failed.
C14_DeleteFontIgnoresUnlinkFailure ==
    (op = "deleteFont" /\ arg.id \in IdsOf(PreDoc.fonts))
        => /\ ret = Bool(TRUE)
           /\ status = 200
           /\ arg.id \notin IdsOf(CurDoc.fonts)
           /\ \A i \in 1..Len(CurDoc.fontGroups) :
                  arg.id \notin IdsOf(CurDoc.fontGroups[i].fonts)
           /\ uploads = IF arg.unlinkOk
                        THEN pre.uploads \ {<<arg.id, ".ttf">>}
                        ELSE pre.uploads
           /\ LET other == FontService_deleteFont(pre.dbFile, pre.uploads,
                                                  arg.id, ~arg.unlinkOk)
              IN other.file = dbFile /\ other.ret = ret

\* a font embedded in a group has been deleted while fs.unlink failed: its
\* binary is still in uploads/
C14_Witness ==
    /\ op = "deleteFont"
    /\ ~arg.unlinkOk
    /\ ret = Bool(TRUE)
    /\ <<arg.id, ".ttf">> \in uploads
    /\ \E i \in 1..Len(PreDoc.fontGroups) : arg.id \in IdsOf(PreDoc.fontGroups[i].fonts)

C17_UpdateFontGroupFrame ==
    /\ (op = "updateFontGroup" /\ ret # Null)
           => LET k == FindIndex(PreDoc.fontGroups, arg.id)
              IN /\ k > 0
                 /\ status = 200
                 /\ Len(CurDoc.fontGroups) = Len(PreDoc.fontGroups)
                 /\ CurDoc.fonts = PreDoc.fonts
                 /\ \A i \in 1..Len(PreDoc.fontGroups) :
                        i # k => CurDoc.fontGroups[i] = PreDoc.fontGroups[i]
                 /\ ret.value.id = arg.id
                 /\ ret.value.name = arg.name
                 /\ Len(ret.value.fonts) = Len(arg.fontIds)
                 /\ \A i \in 1..Len(arg.fontIds) :
                        /\ ret.value.fonts[i].id = arg.fontIds[i]
                        /\ ret.value.fonts[i] \in Range(PreDoc.fonts)
                 /\ CurDoc.fontGroups[k] = GroupToJSON(ret.value)
    /\ (op = "updateFontGroup" /\ arg.id \notin IdsOf(PreDoc.fontGroups))
           => /\ ret = Null
              /\ status = 400
              /\ DocUnchanged
              /\ uploads = pre.uploads

\* the first of two stored groups has been updated to another name
C17_Witness ==
    /\ op = "updateFontGroup"
    /\ ret # Null
    /\ Len(PreDoc.fontGroups) = 2
    /\ PreDoc.fontGroups[1].id = arg.id
    /\ PreDoc.fontGroups[1].name # arg.name

\* C11: write(read()) is a no-op on the file: for every state of the backing
\* file, the file after writing back what read() returned is the file read()
\* found (the one ensureDatabase left, when it was absent).
C11_WriteReadKeepsFileContent ==
    (op = "writeRead" /\ ret = Undefined)
        => dbFile = JsonDatabase_ensureDatabase(pre.dbFile)

\* C11 (amended): write(read()) leaves the document read() returns unchanged
\* for every state of the backing file; the file itself is unchanged when it
\* holds JSON, while an absent file is created with, and a file that does not
\* parse is replaced by, the empty document.
C11_WriteReadKeepsDocument ==
    (op = "writeRead" /\ ret = Undefined)
        => /\ CurDoc = PreDoc
           /\ pre.dbFile.kind = "json" => dbFile = pre.dbFile
           /\ pre.dbFile.kind # "json" => dbFile = [kind |-> "json", doc |-> EmptyData]

\* a document holding a font group (with its fonts and ISO timestamps) has
\* been read and written back
C11_Witness ==
    /\ op = "writeRead"
    /\ ret = Undefined
    /\ pre.dbFile.kind = "json"
    /\ HasFontGroups(PreDoc)
    /\ PreDoc.fontGroups # <<>>

\* C12: read() never fails because of the file's content: on an absent file it
\* creates the file holding {fonts: [], fontGroups: []} and returns that empty
\* document; on a file that does not parse it returns the empty document (and
\* leaves the file as it is); on a JSON file it returns the parsed content.
C12_ReadNeverFails ==
    op = "read"
        => /\ ret.type = "object"
           /\ pre.dbFile.kind = "absent"
                  => /\ dbFile = [kind |-> "json", doc |-> EmptyData]
                     /\ ret = Obj(EmptyData)
           /\ pre.dbFile.kind = "corrupt"
                  => /\ ret = Obj(EmptyData)
                     /\ dbFile = pre.dbFile
           /\ pre.dbFile.kind = "json"
                  => /\ ret = Obj(pre.dbFile.doc)
                     /\ dbFile = pre.dbFile

\* read() has run on a file that does not parse (a write had failed after a
\* font was added) and returned the empty document
C12_Witness ==
    /\ op = "read"
    /\ pre.dbFile.kind = "corrupt"
    /\ ret = Obj(EmptyData)
    /\ nextUuid > 1

\* C13: when a store write fails the caller receives the error and the backing
\* file is the file from before the operation (the one ensureDatabase left):
\* never a partial or truncated document.
C13_FailedWriteKeepsDocument ==
    ret = FailedToSave
        => /\ dbFile = JsonDatabase_ensureDatabase(pre.dbFile)
           /\ CurDoc = PreDoc

\* C18: after backup(), any sequence of store operations and a successful
\* restore() of that backup's file, read() returns the document that was
\* current when backup() ran.
C18_RestoreReturnsBackedUpDocument ==
    (op = "restore" /\ ret = Undefined)
        => \A b \in taken : b.path = arg.path => CurDoc = b.doc

\* C19: in every reachable state, also after restore(path) of a parseable
\* file, read() returns a document with a fonts list and a fontGroups list.
C19_ReadReturnsFontsAndFontGroups ==
    HasFonts(CurDoc) /\ HasFontGroups(CurDoc)

\* the place of process p's read or write among the file accesses (0: not made)
EventAt(p, kind) ==
    IF \E i \in 1..Len(order) : order[i] = <<p, kind>>
    THEN CHOOSE i \in 1..Len(order) : order[i] = <<p, kind>>
    ELSE 0
\* the document holds the font or the group the call added
HoldsChange(doc, call) ==
    IF call.method = "addFont"
    THEN FontToJSON(call.value) \in Range(doc.fonts)
    ELSE GroupToJSON(call.value) \in Range(doc.fontGroups)

\* C16: two mutating store calls that run concurrently can overwrite each
\* other.  Once both have resolved (both successfully, whatever the
\* interleaving), the persisted document holds the change of the call that
\* wrote last, and it holds the change of the other call exactly when the last
\* writer read the file after the other had written it: when both read before
\* either wrote, only one change is persisted.  What was stored before the two
\* calls stays.
C16_LastWriteWins ==
    (\A p \in Procs : pc[p] = "done")
        => LET last == order[Len(order)][1]
               first == Other(last)
           IN /\ \A p \in Procs : ret[p] = Undefined
              /\ HoldsChange(CurDoc, arg[last])
              /\ HoldsChange(CurDoc, arg[first])
                     <=> EventAt(first, "write") < EventAt(last, "read")
              /\ \A i \in 1..Len(PreDoc.fonts) :
                     Len(CurDoc.fonts) >= i /\ CurDoc.fonts[i] = PreDoc.fonts[i]

\* an addFont and an addFontGroup have both resolved and the persisted
\* document holds the change of only one of them
C16_Witness ==
    /\ \A p \in Procs : pc[p] = "done" /\ ret[p] = Undefined
    /\ arg[1].method # arg[2].method
    /\ \E p \in Procs : HoldsChange(CurDoc, arg[p]) /\ ~HoldsChange(CurDoc, arg[Other(p)])

\* C20: after any sequence of addRow and removeRow actions on the font group
\* form at least one font row remains.
C20_AtLeastOneRow == Len(fontRows) >= 1

\* C21: when service operations run one at a time (no restore), in every
\* reachable state each font embedded in any group has an id that is present in
\* the fonts collection: no group holds a reference to a deleted font.
C21_NoDanglingGroupMember ==
    \A i \in 1..Len(CurDoc.fontGroups) :
        IdsOf(CurDoc.fontGroups[i].fonts) \subseteq IdsOf(CurDoc.fonts)

\* deleteFont has removed a font that two groups embedded
C21_Witness ==
    /\ op = "deleteFont"
    /\ ret = Bool(TRUE)
    /\ Len(PreDoc.fontGroups) = 2
    /\ \A i \in 1..2 : arg.id \in IdsOf(PreDoc.fontGroups[i].fonts)
    /\ arg.id \notin IdsOf(CurDoc.fonts)

\* C22: when createFontGroup or updateFontGroup runs concurrently with
\* deleteFont of one of the requested fonts, no interleaving of their store
\* reads and writes ends with a persisted group that embeds a font absent from
\* the fonts collection.
C22_NoDanglingMemberAfterRace ==
    (\A p \in Procs : pc[p] = "done")
        => \A i \in 1..Len(CurDoc.fontGroups) :
               IdsOf(CurDoc.fontGroups[i].fonts) \subseteq IdsOf(CurDoc.fonts)

\* C23: in every state reached by service operations, including runs in which
\* a file removal or a store write fails, every Font record in the store has
\* its binary file present in the uploads directory.
C23_EveryFontHasItsBinary ==
    \A font \in Range(CurDoc.fonts) : font.filename \in uploads

\* C24: when saveFont fails (the store write of the new record raises an
\* error), it leaves no trace: no Font record is added and no binary file for
\* that upload remains in the uploads directory.
C24_FailedSaveFontLeavesNoTrace ==
    (op = "saveFont" /\ ret = FailedToSave)
        => /\ IdsOf(CurDoc.fonts) \subseteq IdsOf(PreDoc.fonts)
           /\ uploads = pre.uploads

\* C25: after any sequence of addRow and removeRow actions on the font group
\* form, the ids of the font rows are pairwise distinct, so updateRow,
\* handleFontSelection and removeRow called with a row id affect exactly one row.
C25_RowIdsDistinct ==
    \A i, j \in 1..Len(fontRows) : fontRows[i].id = fontRows[j].id => i = j

\* C26: after a font is deleted through the UI, the client's fontGroups state
\* equals the server's stored groups: the deleted font no longer appears in any
\* group the client displays or offers for editing, without a page reload.
C26_ClientGroupsFollowDeleteFont ==
    (op = "deleteFont" /\ status = 200)
        => /\ app.fontGroups = CurDoc.fontGroups
           /\ \A g \in Range(app.fontGroups) : arg.id \notin IdsOf(g.fonts)
           /\ app.editingGroup # Null
                  => arg.id \notin IdsOf(app.editingGroup.value.fonts)

====
